---- MODULE Spec2Model ----
(***************************************************************************)
(* The PagerDuty connector of resolute-pagerduty: the REST client          *)
(* (ListIncidents, GetIncident), the incident-to-document mapper and the   *)
(* three activities (FetchIncidents, FetchIncident, FetchPostmortems).     *)
(*                                                                         *)
(* One invocation is modelled at a time (the connector keeps no state      *)
(* between calls).  An invocation blocks at most twice: in                 *)
(* httpClient.Do and in transform.StoreDocuments.  Each action below is    *)
(* the code that runs between two such blocking points; the outcome of     *)
(* the blocking call (the HTTP response, the storage result) is the        *)
(* action's input.                                                         *)
(***************************************************************************)
EXTENDS Integers, Sequences, FiniteSets, TLC

VARIABLES
    pc,          \* "idle", "http" (blocked in httpClient.Do), "store" (blocked in StoreDocuments), "done"
    activity,    \* the entry point that was invoked
    input,       \* its input record
    requests,    \* the HTTP requests sent, in order
    batches,     \* the document batches handed to transform.StoreDocuments, in order
    calls,       \* the outbound calls in the order they were made: "http", "store"
    mapperCalls, \* the number of incidentToDocument invocations
    response,    \* what httpClient.Do came back with
    result,      \* what the client call returned (list response, incident or nil)
    clientErr,   \* the error the client call returned (unwrapped)
    docs,        \* the entry point's local slice of documents
    stored,      \* what transform.StoreDocuments came back with
    out,         \* the output record the entry point returned
    err          \* the error the entry point returned

vars == <<pc, activity, input, requests, batches, calls, mapperCalls, response, result, clientErr,
          docs, stored, out, err>>

---------------------------------------------------------------------------
(* Bounds of the model *)

MaxIncidents == 2
MaxAssignments == 2
MaxLimit == 2
MaxTotal == 3

(* Program constants *)

DefaultActivityLimit == 100
DefaultClientLimit == 25
StatusOK == 200

---------------------------------------------------------------------------
(* Data *)

SeqsUpTo(S, n) == UNION {[1..k -> S] : k \in 0..n}

\* Priority is a *Priority: nil, or a struct of which the mapper reads Name.
NilPriority == [isNil |-> TRUE, Name |-> ""]
Priorities == {NilPriority} \cup {[isNil |-> FALSE, Name |-> n] : n \in {"", "P1"}}

\* An Assignment, of which the mapper reads Assignee.Name.
Assignees == {"alice", "bob"}

\* The fields of Incident that the connector reads (Type, CreatedAt,
\* ResolvedAt and EscalationPolicy are decoded and never read).
Incident(id, summary, description, status, priority, assignments) ==
    [ID |-> id, Summary |-> summary, Description |-> description,
     Status |-> status, Urgency |-> "high", Service |-> "api",
     Priority |-> priority, Assignments |-> assignments,
     HTMLURL |-> "https://pd/" \o id, UpdatedAt |-> 7]

\* The zero Incident: what decoding {} or {"incident": {}} yields.
ZeroIncident ==
    [ID |-> "", Summary |-> "", Description |-> "", Status |-> "", Urgency |-> "",
     Service |-> "", Priority |-> NilPriority, Assignments |-> <<>>,
     HTMLURL |-> "", UpdatedAt |-> 0]

AllIncidents ==
    {ZeroIncident} \cup
    {Incident(id, s, d, st, p, a) :
        id \in {"Q1", "Q2"}, s \in {"", "db down"}, d \in {"", "disk full"},
        st \in {"triggered", "resolved"}, p \in Priorities,
        a \in SeqsUpTo(Assignees, MaxAssignments)}

\* The incidents a list response is built from.
ListPool ==
    {Incident("Q1", "db down", "", "triggered", NilPriority, <<>>),
     Incident("Q2", "api slow", "p99 up", "acknowledged", [isNil |-> FALSE, Name |-> "P1"], <<"alice">>),
     Incident("Q3", "disk", "disk full", "resolved", NilPriority, <<"bob", "alice">>),
     Incident("Q4", "cert", "", "resolved", [isNil |-> FALSE, Name |-> "P2"], <<>>),
     Incident("Q5", "dns", "", "Resolved", NilPriority, <<>>)}

\* The zero transform.Document.
ZeroDocument ==
    [ID |-> "", Content |-> "", Title |-> "", Source |-> "", URL |-> "",
     Metadata |-> <<>>, UpdatedAt |-> 0]

\* core.DataRef: opaque; NilRef is its zero value.
NilRef == ""
Refs == {"ref-1", "ref-2"}

---------------------------------------------------------------------------
(* Errors.  fmt.Errorf("<stage>: %w", cause) keeps the cause; an error is   *)
(* modelled by its stage label (empty when unwrapped), the kind of its     *)
(* cause and, for an API error, the status code and body it carries.       *)

NoError == [stage |-> "", kind |-> "nil", status |-> 0, body |-> ""]

ClientError(kind, status, body) == [stage |-> "", kind |-> kind, status |-> status, body |-> body]

Wrap(label, e) == [e EXCEPT !.stage = label]

NilResult == [nil |-> TRUE]

---------------------------------------------------------------------------
(* Document mapper *)

\* strings.Join(parts, sep)
RECURSIVE Join(_, _)
Join(parts, sep) ==
    IF Len(parts) = 0 THEN ""
    ELSE IF Len(parts) = 1 THEN parts[1]
    ELSE parts[1] \o sep \o Join(Tail(parts), sep)

\* m[k] = v on a Go map
Put(m, k, v) == [x \in (DOMAIN m) \cup {k} |-> IF x = k THEN v ELSE m[x]]

\* contentParts with the description appended unconditionally.
contentPartsAlways(incident) == <<incident.Summary, incident.Description>>

contentParts(incident) ==
    IF incident.Description # ""
    THEN <<incident.Summary, incident.Description>>
    ELSE <<incident.Summary>>

baseMetadata(incident) ==
    [k \in {"incident_id", "status", "urgency", "service"} |->
        CASE k = "incident_id" -> incident.ID
          [] k = "status" -> incident.Status
          [] k = "urgency" -> incident.Urgency
          [] k = "service" -> incident.Service]

\* withPriority testing the name instead of the pointer.
withPriorityIfNamed(metadata, incident) ==
    IF incident.Priority.Name # ""
    THEN Put(metadata, "priority", incident.Priority.Name)
    ELSE metadata

withPriority(metadata, incident) ==
    IF ~incident.Priority.isNil
    THEN Put(metadata, "priority", incident.Priority.Name)
    ELSE metadata

withAssignee(metadata, incident) ==
    IF Len(incident.Assignments) > 0
    THEN Put(metadata, "assignee", incident.Assignments[1])
    ELSE metadata

incidentToDocument(incident) ==
    [ID |-> incident.ID,
     Content |-> Join(contentParts(incident), "\n\n"),
     Title |-> incident.Summary,
     Source |-> "pagerduty",
     URL |-> incident.HTMLURL,
     Metadata |-> withAssignee(withPriority(baseMetadata(incident), incident), incident),
     UpdatedAt |-> incident.UpdatedAt]

\* doc.Metadata["document_type"] = "postmortem"
asPostmortem(doc) == [doc EXCEPT !.Metadata = Put(@, "document_type", "postmortem")]

\* The loop of FetchIncidentsActivity: one document per incident.
incidentDocs(incidents) == [i \in 1..Len(incidents) |-> incidentToDocument(incidents[i])]

\* isPostmortem comparing the status without regard to case.
isPostmortemAnyCase(incident) == incident.Status \in {"resolved", "Resolved", "RESOLVED"}

isPostmortem(incident) == incident.Status = "resolved"

\* The loop of FetchPostmortemsActivity: the resolved incidents, tagged.
RECURSIVE postmortemDocs(_)
postmortemDocs(incidents) ==
    IF Len(incidents) = 0 THEN <<>>
    ELSE IF isPostmortem(Head(incidents))
         THEN <<asPostmortem(incidentToDocument(Head(incidents)))>> \o postmortemDocs(Tail(incidents))
         ELSE postmortemDocs(Tail(incidents))

\* The number of incidentToDocument invocations of that loop.
RECURSIVE postmortemMapCount(_)
postmortemMapCount(incidents) ==
    IF Len(incidents) = 0 THEN 0
    ELSE (IF isPostmortem(Head(incidents)) THEN 1 ELSE 0) + postmortemMapCount(Tail(incidents))

---------------------------------------------------------------------------
(* API client *)

NilContext == "nil"
Contexts == {"ctx", NilContext}

NilTime == "nil"
Times == {NilTime, "2024-01-01T00:00:00Z"}

\* An incident id whose URL net/url refuses (invalid escape).
MalformedIDs == {"%zz"}
IncidentIDs == {"Q1"} \cup MalformedIDs

\* The limit ListIncidents puts in the query.
clientLimit(limit) == IF limit <= 0 THEN DefaultClientLimit ELSE limit

\* activityLimit without its default.
activityLimitNoDefault(limit) == limit

\* The limit an activity passes to ListIncidents.
activityLimit(limit) == IF limit <= 0 THEN DefaultActivityLimit ELSE limit

\* http.NewRequestWithContext fails on a nil context or an unparsable URL.
newRequestFails(ctx, id) == ctx = NilContext \/ id \in MalformedIDs

\* The Authorization header of every request.
setAuth(apiKey) == "Token token=" \o apiKey

listRequest(apiKey, since, until, limit) ==
    [method |-> "GET", path |-> "/incidents", limit |-> clientLimit(limit),
     since |-> since, until |-> until, id |-> "", auth |-> setAuth(apiKey)]

getRequest(apiKey, incidentID) ==
    [method |-> "GET", path |-> "/incidents/" \o incidentID, limit |-> 0,
     since |-> NilTime, until |-> NilTime, id |-> incidentID, auth |-> setAuth(apiKey)]

\* ListIncidents up to httpClient.Do: the request sent, or the error returned.
listIncidentsSend(apiKey, ctx, since, until, limit) ==
    IF newRequestFails(ctx, "")
    THEN [sent |-> FALSE, request |-> NilResult, err |-> ClientError("create request", 0, "")]
    ELSE [sent |-> TRUE, request |-> listRequest(apiKey, since, until, limit), err |-> NoError]

\* GetIncident up to httpClient.Do.
getIncidentSend(apiKey, ctx, incidentID) ==
    IF newRequestFails(ctx, incidentID)
    THEN [sent |-> FALSE, request |-> NilResult, err |-> ClientError("create request", 0, "")]
    ELSE [sent |-> TRUE, request |-> getRequest(apiKey, incidentID), err |-> NoError]

\* What httpClient.Do can come back with.  json decoding is a library: a
\* 200 body either decodes to a payload or does not.
\* `body` is what io.ReadAll(resp.Body) yields (its error is discarded, so
\* after a failed read it is the part of the body that was read).
StatusCodes == {200, 201, 401, 404, 429, 500}
Bodies == {"", "not found"}

TransportFailure ==
    [transport |-> FALSE, status |-> 0, body |-> "", decodes |-> FALSE, payload |-> NilResult]

\* A non-200 response; `zero` is what its body would decode to (the zero
\* value of the expected struct: none of its keys are in an error body).
ErrorStatusResponses(zero) ==
    {[transport |-> TRUE, status |-> s, body |-> b, decodes |-> d,
      payload |-> IF d THEN zero ELSE NilResult] :
        s \in StatusCodes \ {StatusOK}, b \in Bodies, d \in BOOLEAN}

UndecodableResponse ==
    [transport |-> TRUE, status |-> StatusOK, body |-> "<html>", decodes |-> FALSE, payload |-> NilResult]

ListPayloads ==
    {[Incidents |-> l, Total |-> t] : l \in SeqsUpTo(ListPool, MaxIncidents), t \in 0..MaxTotal}

ListResponses ==
    {TransportFailure, UndecodableResponse} \cup
    ErrorStatusResponses([Incidents |-> <<>>, Total |-> 0]) \cup
    {[transport |-> TRUE, status |-> StatusOK, body |-> "json", decodes |-> TRUE, payload |-> p] :
        p \in ListPayloads}

GetResponses ==
    {TransportFailure, UndecodableResponse} \cup ErrorStatusResponses(ZeroIncident) \cup
    {[transport |-> TRUE, status |-> StatusOK, body |-> "json", decodes |-> TRUE, payload |-> i] :
        i \in AllIncidents}

\* isAPIError taking only 4xx and 5xx for failures.
isAPIErrorFrom400(resp) == resp.status >= 400

isAPIError(resp) == resp.status # StatusOK

\* ListIncidents and GetIncident after httpClient.Do returned: (result, error).
clientReturn(resp) ==
    IF ~resp.transport
    THEN [res |-> NilResult, err |-> ClientError("execute request", 0, "")]
    ELSE IF isAPIError(resp)
    THEN [res |-> NilResult, err |-> ClientError("pagerduty API error", resp.status, resp.body)]
    ELSE IF ~resp.decodes
    THEN [res |-> NilResult, err |-> ClientError("decode response", 0, "")]
    ELSE [res |-> resp.payload, err |-> NoError]

---------------------------------------------------------------------------
(* Inputs and outputs of the entry points *)

APIKeys == {"k1"}
Limits == (-1..MaxLimit) \cup {DefaultClientLimit, DefaultActivityLimit}

FetchIncidentsInputs == [APIKey : APIKeys, Ctx : Contexts, Since : Times, Until : Times, Limit : Limits]
FetchIncidentInputs == [APIKey : APIKeys, Ctx : Contexts, IncidentID : IncidentIDs]
FetchPostmortemsInputs == [APIKey : APIKeys, Ctx : Contexts, Since : Times, Limit : Limits]

NoInput == [none |-> TRUE]
NoOutput == [none |-> TRUE]
NoResponse == [none |-> TRUE]
NotStored == [ref |-> NilRef, err |-> NoError, none |-> TRUE]

\* FetchIncidentsOutput{}, FetchIncidentOutput{}, FetchPostmortemsOutput{}
ZeroFetchIncidentsOutput == [Ref |-> NilRef, Count |-> 0, Total |-> 0]
ZeroFetchIncidentOutput == [Document |-> ZeroDocument, Found |-> FALSE]
ZeroFetchPostmortemsOutput == [Ref |-> NilRef, Count |-> 0]

\* What transform.StoreDocuments can come back with: (ref, nil) or (_, err).
StoreOutcomes ==
    {[ref |-> r, err |-> NoError] : r \in Refs} \cup
    {[ref |-> r, err |-> ClientError("storage", 0, "")] : r \in {NilRef, "ref-1"}}

\* The returns of the entry points.
listFailed(zero, e) == [out |-> zero, err |-> Wrap("list incidents", e)]

getFailed(zero, e) == [out |-> zero, err |-> Wrap("get incident", e)]

\* storeFailed returning the storage error unwrapped.
storeFailedUnwrapped(zero, e) == [out |-> zero, err |-> e]

storeFailed(zero, e) == [out |-> zero, err |-> Wrap("store documents", e)]

\* fetchIncidentsReturn reporting the server's total as the count.
fetchIncidentsReturnTotal(res, ds, st) ==
    IF st.err # NoError
    THEN [out |-> ZeroFetchIncidentsOutput, err |-> Wrap("store documents", st.err)]
    ELSE [out |-> [Ref |-> st.ref, Count |-> res.Total, Total |-> res.Total], err |-> NoError]

fetchIncidentsReturn(res, ds, st) ==
    IF st.err # NoError
    THEN storeFailed(ZeroFetchIncidentsOutput, st.err)
    ELSE [out |-> [Ref |-> st.ref, Count |-> Len(ds), Total |-> res.Total], err |-> NoError]

fetchPostmortemsReturn(ds, st) ==
    IF st.err # NoError
    THEN storeFailed(ZeroFetchPostmortemsOutput, st.err)
    ELSE [out |-> [Ref |-> st.ref, Count |-> Len(ds)], err |-> NoError]

\* fetchIncidentReturn with a not-found branch: 404 is Found = false, no error.
fetchIncidentReturnNotFound(got) ==
    IF got.err.status = 404
    THEN [out |-> ZeroFetchIncidentOutput, err |-> NoError]
    ELSE IF got.err # NoError
    THEN [out |-> ZeroFetchIncidentOutput, err |-> Wrap("get incident", got.err)]
    ELSE [out |-> [Document |-> incidentToDocument(got.res), Found |-> TRUE], err |-> NoError]

fetchIncidentReturn(got) ==
    IF got.err # NoError
    THEN getFailed(ZeroFetchIncidentOutput, got.err)
    ELSE [out |-> [Document |-> incidentToDocument(got.res), Found |-> TRUE], err |-> NoError]

---------------------------------------------------------------------------
(* The state machine *)

Init ==
    /\ pc = "idle"
    /\ activity = "none"
    /\ input = NoInput
    /\ requests = <<>>
    /\ batches = <<>>
    /\ calls = <<>>
    /\ mapperCalls = 0
    /\ response = NoResponse
    /\ result = NilResult
    /\ clientErr = NoError
    /\ docs = <<>>
    /\ stored = NotStored
    /\ out = NoOutput
    /\ err = NoError

\* The entry point returns.
Return(ret) ==
    /\ pc' = "done"
    /\ out' = ret.out
    /\ err' = ret.err

\* The client call of an entry point, up to httpClient.Do: the request goes
\* out, or the call fails and `failed` is what the entry point returns.
Send(sent, failed) ==
    IF sent.sent
    THEN /\ pc' = "http"
         /\ requests' = Append(requests, sent.request)
         /\ calls' = Append(calls, "http")
         /\ UNCHANGED <<result, clientErr, out, err>>
    ELSE /\ clientErr' = sent.err
         /\ result' = NilResult
         /\ Return(failed)
         /\ UNCHANGED <<requests, calls>>

\* httpClient.Do came back and the client call returns `got`.
Receive(resp, got) ==
    /\ response' = resp
    /\ result' = got.res
    /\ clientErr' = got.err

\* Store skipping the storage call when there is nothing to store.
StoreUnlessEmpty(ds) ==
    /\ pc' = "store"
    /\ docs' = ds
    /\ batches' = IF ds = <<>> THEN batches ELSE Append(batches, ds)
    /\ calls' = IF ds = <<>> THEN calls ELSE Append(calls, "store")
    /\ UNCHANGED <<out, err>>

\* ref, err := transform.StoreDocuments(ctx, ds)
Store(ds) ==
    /\ pc' = "store"
    /\ docs' = ds
    /\ batches' = Append(batches, ds)
    /\ calls' = Append(calls, "store")
    /\ UNCHANGED <<out, err>>

\* FetchIncidentsActivity, up to the HTTP call.
FetchIncidentsCall(in) ==
    /\ pc = "idle"
    /\ activity' = "FetchIncidents"
    /\ input' = in
    /\ LET sent == listIncidentsSend(in.APIKey, in.Ctx, in.Since, in.Until, activityLimit(in.Limit))
       IN Send(sent, listFailed(ZeroFetchIncidentsOutput, sent.err))
    /\ UNCHANGED <<batches, mapperCalls, response, docs, stored>>

\* FetchIncidentsResponse sending the request once more after a transport failure.
FetchIncidentsResponseRetrying(resp) ==
    /\ pc = "http"
    /\ activity = "FetchIncidents"
    /\ LET got == clientReturn(resp)
       IN /\ Receive(resp, got)
          /\ IF got.err.kind = "execute request" /\ Len(requests) < 2
             THEN /\ pc' = "http"
                  /\ requests' = Append(requests, requests[1])
                  /\ calls' = Append(calls, "http")
                  /\ UNCHANGED <<batches, mapperCalls, docs, out, err>>
             ELSE /\ requests' = requests
                  /\ IF got.err # NoError
                     THEN /\ Return(listFailed(ZeroFetchIncidentsOutput, got.err))
                          /\ UNCHANGED <<batches, calls, mapperCalls, docs>>
                     ELSE /\ mapperCalls' = mapperCalls + Len(got.res.Incidents)
                          /\ Store(incidentDocs(got.res.Incidents))
    /\ UNCHANGED <<activity, input, stored>>

\* FetchIncidentsActivity, from the HTTP response to the storage call.
FetchIncidentsResponse(resp) ==
    /\ pc = "http"
    /\ activity = "FetchIncidents"
    /\ LET got == clientReturn(resp)
       IN /\ Receive(resp, got)
          /\ IF got.err # NoError
             THEN /\ Return(listFailed(ZeroFetchIncidentsOutput, got.err))
                  /\ UNCHANGED <<batches, calls, mapperCalls, docs>>
             ELSE /\ mapperCalls' = mapperCalls + Len(got.res.Incidents)
                  /\ Store(incidentDocs(got.res.Incidents))
    /\ UNCHANGED <<activity, input, requests, stored>>

\* FetchIncidentsActivity, after transform.StoreDocuments returned.
FetchIncidentsStored(st) ==
    /\ pc = "store"
    /\ activity = "FetchIncidents"
    /\ stored' = st
    /\ Return(fetchIncidentsReturn(result, docs, st))
    /\ UNCHANGED <<activity, input, requests, batches, calls, mapperCalls, response, result,
                   clientErr, docs>>

\* FetchPostmortemsActivity, up to the HTTP call (until is nil).
FetchPostmortemsCall(in) ==
    /\ pc = "idle"
    /\ activity' = "FetchPostmortems"
    /\ input' = in
    /\ LET sent == listIncidentsSend(in.APIKey, in.Ctx, in.Since, NilTime, activityLimit(in.Limit))
       IN Send(sent, listFailed(ZeroFetchPostmortemsOutput, sent.err))
    /\ UNCHANGED <<batches, mapperCalls, response, docs, stored>>

\* FetchPostmortemsActivity, from the HTTP response to the storage call.
FetchPostmortemsResponse(resp) ==
    /\ pc = "http"
    /\ activity = "FetchPostmortems"
    /\ LET got == clientReturn(resp)
       IN /\ Receive(resp, got)
          /\ IF got.err # NoError
             THEN /\ Return(listFailed(ZeroFetchPostmortemsOutput, got.err))
                  /\ UNCHANGED <<batches, calls, mapperCalls, docs>>
             ELSE /\ mapperCalls' = mapperCalls + postmortemMapCount(got.res.Incidents)
                  /\ Store(postmortemDocs(got.res.Incidents))
    /\ UNCHANGED <<activity, input, requests, stored>>

\* FetchPostmortemsActivity, after transform.StoreDocuments returned.
FetchPostmortemsStored(st) ==
    /\ pc = "store"
    /\ activity = "FetchPostmortems"
    /\ stored' = st
    /\ Return(fetchPostmortemsReturn(docs, st))
    /\ UNCHANGED <<activity, input, requests, batches, calls, mapperCalls, response, result,
                   clientErr, docs>>

\* FetchIncidentActivity, up to the HTTP call.
FetchIncidentCall(in) ==
    /\ pc = "idle"
    /\ activity' = "FetchIncident"
    /\ input' = in
    /\ LET sent == getIncidentSend(in.APIKey, in.Ctx, in.IncidentID)
       IN Send(sent, getFailed(ZeroFetchIncidentOutput, sent.err))
    /\ UNCHANGED <<batches, mapperCalls, response, docs, stored>>

\* FetchIncidentActivity, from the HTTP response to its return.
FetchIncidentResponse(resp) ==
    /\ pc = "http"
    /\ activity = "FetchIncident"
    /\ LET got == clientReturn(resp)
       IN /\ Receive(resp, got)
          /\ mapperCalls' = IF got.err = NoError THEN mapperCalls + 1 ELSE mapperCalls
          /\ Return(fetchIncidentReturn(got))
    /\ UNCHANGED <<activity, input, requests, batches, calls, docs, stored>>

\* Client.ListIncidents called directly, without an activity, up to the HTTP call.
ListIncidentsCall(in) ==
    /\ pc = "idle"
    /\ activity' = "ListIncidents"
    /\ input' = in
    /\ LET sent == listIncidentsSend(in.APIKey, in.Ctx, in.Since, in.Until, in.Limit)
       IN Send(sent, [out |-> NoOutput, err |-> sent.err])
    /\ UNCHANGED <<batches, mapperCalls, response, docs, stored>>

\* Client.ListIncidents called directly, after httpClient.Do returned.
ListIncidentsResponse(resp) ==
    /\ pc = "http"
    /\ activity = "ListIncidents"
    /\ LET got == clientReturn(resp)
       IN /\ Receive(resp, got)
          /\ Return([out |-> NoOutput, err |-> got.err])
    /\ UNCHANGED <<activity, input, requests, batches, calls, mapperCalls, docs, stored>>

\* Client.GetIncident called directly, up to the HTTP call.
GetIncidentCall(in) ==
    /\ pc = "idle"
    /\ activity' = "GetIncident"
    /\ input' = in
    /\ LET sent == getIncidentSend(in.APIKey, in.Ctx, in.IncidentID)
       IN Send(sent, [out |-> NoOutput, err |-> sent.err])
    /\ UNCHANGED <<batches, mapperCalls, response, docs, stored>>

\* Client.GetIncident called directly, after httpClient.Do returned.
GetIncidentResponse(resp) ==
    /\ pc = "http"
    /\ activity = "GetIncident"
    /\ LET got == clientReturn(resp)
       IN /\ Receive(resp, got)
          /\ Return([out |-> NoOutput, err |-> got.err])
    /\ UNCHANGED <<activity, input, requests, batches, calls, mapperCalls, docs, stored>>

Next ==
    \/ \E in \in FetchIncidentsInputs : FetchIncidentsCall(in)
    \/ \E resp \in ListResponses : FetchIncidentsResponse(resp)
    \/ \E st \in StoreOutcomes : FetchIncidentsStored(st)
    \/ \E in \in FetchPostmortemsInputs : FetchPostmortemsCall(in)
    \/ \E resp \in ListResponses : FetchPostmortemsResponse(resp)
    \/ \E st \in StoreOutcomes : FetchPostmortemsStored(st)
    \/ \E in \in FetchIncidentInputs : FetchIncidentCall(in)
    \/ \E resp \in GetResponses : FetchIncidentResponse(resp)
    \/ \E in \in FetchIncidentsInputs : ListIncidentsCall(in)
    \/ \E resp \in ListResponses : ListIncidentsResponse(resp)
    \/ \E in \in FetchIncidentInputs : GetIncidentCall(in)
    \/ \E resp \in GetResponses : GetIncidentResponse(resp)

Spec == Init /\ [][Next]_vars

---------------------------------------------------------------------------
(* The mapper on its own: incidentToDocument applied to one incident. *)

InitMap ==
    /\ pc = "idle"
    /\ activity = "incidentToDocument"
    /\ input = NoInput
    /\ requests = <<>>
    /\ batches = <<>>
    /\ calls = <<>>
    /\ mapperCalls = 0
    /\ response = NoResponse
    /\ result \in AllIncidents
    /\ clientErr = NoError
    /\ docs = <<>>
    /\ stored = NotStored
    /\ out = NoOutput
    /\ err = NoError

MapIncident ==
    /\ pc = "idle"
    /\ activity = "incidentToDocument"
    /\ pc' = "done"
    /\ out' = incidentToDocument(result)
    /\ mapperCalls' = mapperCalls + 1
    /\ UNCHANGED <<activity, input, requests, batches, calls, response, result, clientErr,
                   docs, stored, err>>

NextMap == MapIncident

SpecMap == InitMap /\ [][NextMap]_vars

---------------------------------------------------------------------------
(* Properties *)

Activities == {"FetchIncidents", "FetchIncident", "FetchPostmortems"}
ListActivities == {"FetchIncidents", "FetchPostmortems"}

Succeeded == pc = "done" /\ err = NoError
Responded == response # NoResponse

\* The empty output record of an entry point.
ZeroOutputOf(a) ==
    CASE a = "FetchIncidents" -> [Ref |-> "", Count |-> 0, Total |-> 0]
      [] a = "FetchPostmortems" -> [Ref |-> "", Count |-> 0]
      [] a = "FetchIncident" ->
            [Document |-> [ID |-> "", Content |-> "", Title |-> "", Source |-> "", URL |-> "",
                           Metadata |-> <<>>, UpdatedAt |-> 0],
             Found |-> FALSE]

\* The positions of the resolved incidents of a list, and the k-th of a set of positions.
ResolvedPositions(incidents) == {i \in 1..Len(incidents) : incidents[i].Status = "resolved"}
KthOf(S, k) == CHOOSE i \in S : Cardinality({j \in S : j <= i}) = k

\* C1: a response whose status is not 200 makes ListIncidents and GetIncident
\* return no result and an API error carrying that status and the raw body;
\* the activity that made the call ends with that error, having invoked
\* neither incidentToDocument nor the storage collaborator.
C1_NonOKIsAPIError ==
    (Responded /\ response.transport /\ response.status # 200) =>
        /\ pc = "done"
        /\ result = NilResult
        /\ clientErr = [stage |-> "", kind |-> "pagerduty API error",
                        status |-> response.status, body |-> response.body]
        /\ err # NoError
        /\ activity \in Activities =>
            /\ err.kind = "pagerduty API error"
            /\ err.status = response.status
            /\ err.body = response.body
            /\ mapperCalls = 0
            /\ batches = <<>>
            /\ calls = <<"http">>

C1_Witness ==
    /\ pc = "done"
    /\ activity = "FetchPostmortems"
    /\ Responded
    /\ response.transport
    /\ response.status = 201
    /\ response.body = "not found"
    /\ response.decodes
    /\ mapperCalls = 0

\* C2: the metadata of incidentToDocument(incident) has exactly the keys
\* incident_id, status, urgency, service, plus priority iff the priority is
\* non-null, plus assignee iff there is at least one assignment; assignee is
\* the name of the first assignment's assignee.
C2_MetadataKeys ==
    (pc = "done" /\ activity = "incidentToDocument") =>
        LET m == out.Metadata
            keys == {"incident_id", "status", "urgency", "service"}
                    \cup (IF result.Priority.isNil THEN {} ELSE {"priority"})
                    \cup (IF Len(result.Assignments) >= 1 THEN {"assignee"} ELSE {})
        IN /\ DOMAIN m = keys
           /\ m["incident_id"] = result.ID
           /\ m["status"] = result.Status
           /\ m["urgency"] = result.Urgency
           /\ m["service"] = result.Service
           /\ "priority" \in DOMAIN m => m["priority"] = result.Priority.Name
           /\ "assignee" \in DOMAIN m => m["assignee"] = result.Assignments[1]

C2_Witness ==
    /\ pc = "done"
    /\ activity = "incidentToDocument"
    /\ ~result.Priority.isNil
    /\ result.Priority.Name = ""
    /\ result.Assignments = <<"bob", "alice">>
    /\ DOMAIN out.Metadata = {"incident_id", "status", "urgency", "service", "priority", "assignee"}

\* C3: a successful FetchPostmortems hands storage exactly one document per
\* listed incident whose status is "resolved", in list order and none for
\* another status; each is incidentToDocument of its incident with
\* metadata["document_type"] = "postmortem" added; Count is their number.
C3_PostmortemBatch ==
    (Succeeded /\ activity = "FetchPostmortems") =>
        LET incidents == response.payload.Incidents
            pos == ResolvedPositions(incidents)
        IN /\ Len(batches) = 1
           /\ Len(batches[1]) = Cardinality(pos)
           /\ \A k \in 1..Len(batches[1]) :
                LET d == incidentToDocument(incidents[KthOf(pos, k)])
                    b == batches[1][k]
                IN /\ DOMAIN b.Metadata = (DOMAIN d.Metadata) \cup {"document_type"}
                   /\ b.Metadata["document_type"] = "postmortem"
                   /\ \A key \in DOMAIN d.Metadata : b.Metadata[key] = d.Metadata[key]
                   /\ [b EXCEPT !.Metadata = d.Metadata] = d
           /\ out.Count = Cardinality(pos)
           /\ out.Ref = stored.ref

C3_Witness ==
    /\ Succeeded
    /\ activity = "FetchPostmortems"
    /\ Len(response.payload.Incidents) = 2
    /\ response.payload.Incidents[1].Status = "Resolved"
    /\ response.payload.Incidents[2].Status = "resolved"
    /\ out.Count = 1

\* C4: a successful FetchIncidents maps incident i of the response to
\* document i, filters none out, hands the whole batch to storage in one
\* call, and returns Ref = the handle storage returned, Count = the number of
\* incidents of the response, Total = the server's total, whatever it is.
C4_FetchIncidentsBatch ==
    (Succeeded /\ activity = "FetchIncidents") =>
        LET incidents == response.payload.Incidents
        IN /\ Len(batches) = 1
           /\ Len(batches[1]) = Len(incidents)
           /\ \A i \in 1..Len(incidents) : batches[1][i] = incidentToDocument(incidents[i])
           /\ out = [Ref |-> stored.ref, Count |-> Len(incidents), Total |-> response.payload.Total]
           /\ out.Count <= Len(incidents)
           /\ stored.ref \in Refs

C4_Witness ==
    /\ Succeeded
    /\ activity = "FetchIncidents"
    /\ out.Count = 2
    /\ out.Total = 0
    /\ out.Ref = "ref-2"

\* C5: the limit of the list query is the caller's limit when it is
\* positive; otherwise FetchIncidents and FetchPostmortems send 100 and a
\* direct ListIncidents sends 25.  No activity sends a non-positive limit,
\* and an activity sends 25 only when the caller passed 25.
C5_LimitSent ==
    \A i \in 1..Len(requests) :
        requests[i].path = "/incidents" =>
            LET sent == requests[i].limit
            IN /\ input.Limit > 0 => sent = input.Limit
               /\ (input.Limit <= 0 /\ activity \in ListActivities) => sent = 100
               /\ (input.Limit <= 0 /\ activity = "ListIncidents") => sent = 25
               /\ activity \in ListActivities => (sent > 0 /\ (sent = 25 => input.Limit = 25))

C5_Witness ==
    /\ activity = "FetchPostmortems"
    /\ input.Limit = -1
    /\ Len(requests) = 1
    /\ requests[1].limit = 100

\* C6: every failure of an activity comes back as an error wrapped with the
\* label of the stage that failed ("list incidents", "get incident",
\* "store documents") around the unchanged cause, with the empty output
\* record; "store documents" occurs only after the list step succeeded.
C6_ErrorsWrapped ==
    (pc = "done" /\ activity \in Activities) =>
        LET clientFailed == clientErr # NoError
            storeFailedNow == stored.err # NoError
        IN /\ (clientFailed \/ storeFailedNow) <=> (err # NoError)
           /\ err # NoError =>
                /\ out = ZeroOutputOf(activity)
                /\ err.stage = IF ~clientFailed THEN "store documents"
                               ELSE IF activity = "FetchIncident" THEN "get incident"
                               ELSE "list incidents"
                /\ [err EXCEPT !.stage = ""] = IF clientFailed THEN clientErr ELSE stored.err
                /\ clientFailed => clientErr.kind \in {"create request", "execute request",
                                                       "pagerduty API error", "decode response"}
                /\ err.stage = "store documents" =>
                     /\ activity \in ListActivities
                     /\ result # NilResult
                     /\ result = response.payload
                     /\ calls = <<"http", "store">>

C6_Witness ==
    /\ pc = "done"
    /\ activity = "FetchIncidents"
    /\ err.stage = "store documents"
    /\ err.kind = "storage"
    /\ stored.ref = "ref-1"
    /\ out.Ref = ""

\* C7: FetchIncident returns Found = true with the mapped document of the
\* fetched incident exactly when GetIncident succeeds and an error in every
\* other case, a 404 included; it never returns Found = false with no error.
C7_FoundOrError ==
    (pc = "done" /\ activity = "FetchIncident") =>
        /\ (clientErr = NoError) <=> (err = NoError)
        /\ err = NoError =>
             /\ out.Found
             /\ Responded
             /\ out.Document = incidentToDocument(response.payload)
        /\ err # NoError => out = ZeroOutputOf("FetchIncident")
        /\ ~(~out.Found /\ err = NoError)
        /\ (Responded /\ response.transport /\ response.status = 404) => err # NoError

C7_Witness ==
    /\ pc = "done"
    /\ activity = "FetchIncident"
    /\ Responded
    /\ response.transport
    /\ response.status = 404
    /\ err.stage = "get incident"
    /\ ~out.Found

\* C8 as stated: every successful invocation of every activity is one or two
\* HTTP calls followed by one storage call.
C8_EveryActivityStores ==
    (Succeeded /\ activity \in Activities) =>
        LET n == Len(calls)
        IN /\ n \in {2, 3}
           /\ calls[n] = "store"
           /\ \A i \in 1..(n - 1) : calls[i] = "http"
           /\ Len(batches) = 1

\* C8, amended: a storage call is never the first outbound call; a successful
\* FetchIncidents or FetchPostmortems is exactly one HTTP call followed by
\* exactly one storage call that is handed the resulting documents; a
\* successful FetchIncident is one HTTP call and no storage call.
C8_ListActivitiesStore ==
    /\ \A i \in 1..Len(calls) : calls[i] = "store" => (i > 1 /\ calls[1] = "http")
    /\ (Succeeded /\ activity \in ListActivities) =>
         /\ calls = <<"http", "store">>
         /\ batches = <<docs>>
         /\ out.Count = Len(batches[1])
    /\ (Succeeded /\ activity = "FetchIncident") =>
         /\ calls = <<"http">>
         /\ batches = <<>>

C8_Witness ==
    /\ Succeeded
    /\ activity = "FetchPostmortems"
    /\ calls = <<"http", "store">>
    /\ batches = << <<>> >>
    /\ Len(response.payload.Incidents) = 1

\* C9: the content of incidentToDocument(incident) is summary, "\n\n",
\* description when the description is non-empty and the summary alone
\* otherwise; the title is the summary, the id the incident id, the source
\* tag "pagerduty".
C9_Content ==
    (pc = "done" /\ activity = "incidentToDocument") =>
        /\ result.Description # "" =>
             out.Content = result.Summary \o "\n\n" \o result.Description
        /\ result.Description = "" => out.Content = result.Summary
        /\ out.Title = result.Summary
        /\ out.ID = result.ID
        /\ out.Source = "pagerduty"

C9_Witness ==
    /\ pc = "done"
    /\ activity = "incidentToDocument"
    /\ result.Summary = "db down"
    /\ result.Description = ""
    /\ out.Content = "db down"
    /\ Len(out.Content) = 7

\* C10: an invocation sends at most one HTTP request and makes at most one
\* storage call; once the client or the storage call has failed the
\* invocation is over, with an error and the empty output record, and no
\* storage call follows a failed client call.
C10_NoRetry ==
    /\ Len(requests) <= 1
    /\ Len(batches) <= 1
    /\ Len(calls) <= 2
    /\ clientErr # NoError =>
         /\ pc = "done"
         /\ batches = <<>>
         /\ err # NoError
         /\ activity \in Activities => out = ZeroOutputOf(activity)
    /\ stored.err # NoError =>
         /\ pc = "done"
         /\ err # NoError
         /\ out = ZeroOutputOf(activity)

C10_Witness ==
    /\ pc = "done"
    /\ activity = "FetchIncidents"
    /\ clientErr.kind = "execute request"
    /\ requests # <<>>
    /\ err.stage = "list incidents"

====
